---------------------------- MODULE Spec2Model ----------------------------
(***************************************************************************)
(* A model of bash-template.py, the interactive generator of bash script   *)
(* boilerplate.                                                            *)
(*                                                                         *)
(* Text is modelled at character level: a Python str is a sequence of      *)
(* one-character strings, so that splitting, wrapping, case conversion and *)
(* the validation filters are computed the way the code computes them.     *)
(***************************************************************************)
EXTENDS Integers, Sequences, FiniteSets

VARIABLES
  pc,                        \* where the program is (which prompt it waits at)
  args,                      \* parse_arguments(): the generator's own options
  descriptions,              \* get_script_descriptions(): short and long text
  flag_data,                 \* get_flags_data(): the ordered descriptor list
  data,                      \* get_individual_flag_data(): descriptor in the making
  last,                      \* the last console event (a line typed, or ^C)
  out,                       \* the last message printed to the console
  adds,                      \* number of 'A' commands the builder has accepted
  author,                    \* add_headers(): the answer to input("Author: ")
  content,                   \* create_script(): the text written, by fragment
  string,                    \* split_string_length(): its argument
  max_length,                \* split_string_length(): its argument
  prefix,                    \* split_string_length(): its argument
  split_string,              \* split_string_length(): its result
  getopts_parameter_string,  \* generated script: the getopts option string
  argv,                      \* generated script: the options on its command line
  OPTIND,                    \* generated script: index of the next option
  flag_,                     \* generated script: the flag_<char> counters
  SUM_EXP6,                  \* generated script: sum_exp6_flags' result
  exit_code                  \* generated script: exit status, or "running"

vars ==
  <<pc, args, descriptions, flag_data, data, last, out, adds, author,
    content, string, max_length, prefix, split_string,
    getopts_parameter_string, argv, OPTIND, flag_, SUM_EXP6, exit_code>>

mainVars ==
  <<pc, args, descriptions, flag_data, data, last, out, adds, author, content>>

wrapVars ==
  <<string, max_length, prefix, split_string>>

loopVars ==
  <<getopts_parameter_string, argv, OPTIND, flag_, SUM_EXP6, exit_code>>

(***************************************************************************)
(* Bounds of the model.                                                    *)
(***************************************************************************)
\* longest string handed to split_string_length on its own
MaxLen == 8
\* largest max_length handed to split_string_length on its own
MaxWidth == 3
\* most user descriptors entered at the prompts
MaxFlags == 2
\* most user descriptors handed to add_flags_data on its own
MaxEmit == 5
\* most options on the generated script's command line
MaxOpts == 3

(***************************************************************************)
(* Values of the variables a specification does not use.                   *)
(***************************************************************************)
IdleMain ==
  /\ args = [strict |-> FALSE, no_color |-> FALSE, cleanup |-> FALSE,
             amend_parameters |-> FALSE, variable_lowercase |-> FALSE]
  /\ descriptions = <<>>
  /\ flag_data = <<>>
  /\ data = <<>>
  /\ last = <<>>
  /\ out = ""
  /\ adds = 0
  /\ author = <<>>
  /\ content = <<>>

IdleWrap ==
  /\ string = <<>>
  /\ max_length = 0
  /\ prefix = <<>>
  /\ split_string = <<>>

\* no exit status yet: the script is still running
running == -1

IdleLoop ==
  /\ getopts_parameter_string = <<>>
  /\ argv = <<>>
  /\ OPTIND = 1
  /\ flag_ = <<>>
  /\ SUM_EXP6 = 0
  /\ exit_code = running

(***************************************************************************)
(* Strings.                                                                *)
(***************************************************************************)
NL == "\n"

ascii_lowercase ==
  <<"a","b","c","d","e","f","g","h","i","j","k","l","m",
    "n","o","p","q","r","s","t","u","v","w","x","y","z">>

ascii_uppercase ==
  <<"A","B","C","D","E","F","G","H","I","J","K","L","M",
    "N","O","P","Q","R","S","T","U","V","W","X","Y","Z">>

Range(s) == {s[i] : i \in 1..Len(s)}

IndexIn(c, s) == CHOOSE i \in 1..Len(s) : s[i] = c

\* str.lower() and str.upper(), character by character
lower(s) ==
  [i \in 1..Len(s) |->
     IF s[i] \in Range(ascii_uppercase)
       THEN ascii_lowercase[IndexIn(s[i], ascii_uppercase)]
       ELSE s[i]]

upper(s) ==
  [i \in 1..Len(s) |->
     IF s[i] \in Range(ascii_lowercase)
       THEN ascii_uppercase[IndexIn(s[i], ascii_lowercase)]
       ELSE s[i]]

\* Python's  x in s  for strings: x is a contiguous substring of s
IsSubstring(x, s) ==
  \E i \in 0..(Len(s) - Len(x)) : \A j \in 1..Len(x) : s[i + j] = x[j]

\* str.split(sep) for a one-character sep: k separators give k+1 pieces, the
\* text before the first separator, between two in a row, and after the last
Split(s, sep) ==
  LET cuts == {0, Len(s) + 1} \cup {i \in 1..Len(s) : s[i] = sep}
      cut(k) == CHOOSE p \in cuts : Cardinality({q \in cuts : q < p}) = k - 1
  IN  [k \in 1..(Cardinality(cuts) - 1) |->
         SubSeq(s, cut(k) + 1, cut(k + 1) - 1)]

\* the newline-delimited lines of a wrapped text, without the prefix that
\* starts every line but the first (what follows the final newline is no line)
LinesOf(text, pre) ==
  LET pieces == Split(text, NL)
  IN  [i \in 1..(Len(pieces) - 1) |->
         IF i = 1 THEN pieces[i]
         ELSE SubSeq(pieces[i], Len(pre) + 1, Len(pieces[i]))]

IsWord(w) == w # <<>>

WordsOf(line) == SelectSeq(Split(line, " "), IsWord)

SingleLongWord(line, width) ==
  /\ Len(WordsOf(line)) = 1
  /\ Len(WordsOf(line)[1]) > width

\* every string over alphabet of length at most n
RECURSIVE StringsUpTo(_, _)
StringsUpTo(alphabet, n) ==
  IF n = 0 THEN {<<>>}
  ELSE LET shorter == StringsUpTo(alphabet, n - 1)
       IN  shorter \cup {Append(s, c) : s \in shorter, c \in alphabet}

(***************************************************************************)
(* split_string_length                                                     *)
(***************************************************************************)
\* the for loop: space is what a word's trailing space adds to sentence_length
RECURSIVE split_words(_, _, _, _, _, _, _)
split_words(words, i, sentence_length, acc, width, pre, space) ==
  IF i > Len(words) THEN acc
  ELSE LET word == words[i]
       IN  IF sentence_length + Len(word) > width
             THEN split_words(words, i + 1, 0 + Len(word) + space,
                              acc \o <<NL>> \o pre \o word \o <<" ">>,
                              width, pre, space)
             ELSE split_words(words, i + 1, sentence_length + Len(word) + space,
                              acc \o word \o <<" ">>,
                              width, pre, space)

\* a wrapping that forgets to count the space after each word
split_string_length_nospace(s, width, pre) ==
  split_words(Split(s, " "), 1, 0, <<>>, width, pre, 0) \o <<NL>>

split_string_length(s, width, pre) ==
  split_words(Split(s, " "), 1, 0, <<>>, width, pre, 1) \o <<NL>>


(***************************************************************************)
(* The fixed text of the generated script, line by line (each line ends    *)
(* with a newline in the script).                                          *)
(***************************************************************************)
useful_vars ==
  <<"# Exit codes",
    "sucess_code=0",
    "replicate_flag_code=1",
    "invalid_argument_code=2",
    "missing_argument_code=3",
    "no_mandatory_flag_code=4",
    "",
    "script_name=${0##*/}",
    "script_dir=\"$( cd \"$( dirname \"${BASH_SOURCE[0]}\" )\" >/dev/null 2>&1 && pwd )\"",
    "">>

cleanup_function ==
  <<" cleanup() {",
    "  trap - SIGINT SIGTERM ERR EXIT",
    "  # TODO: Script cleanup here",
    "} ",
    "">>

flag_functions ==
  <<"# Checks to see if manadatory flag is present and if not, show usage help and",
    "# throw error exit code.",
    "# Args:",
    "#      $1 - Flag counter",
    "#      $2 - Flag (e.g. -m)",
    "function check_mandatory_flag() {",
    "  if [[ $1 -eq 0 ]]; then",
    "    echo $2\" flag is required\"",
    "    echo \"$usage_help\"",
    "    exit $no_mandatory_flag_code",
    "  fi",
    "}",
    "",
    "# Loops through all manadatory flags to see if specified",
    "function check_all_mandatory_flags() {",
    "  for char in {a..z} {0..9}",
    "  do",
    "    if [[ $mandatory_flags =~ $char ]]; then",
    "      eval 'check_mandatory_flag $flag_'$char' $flag_'$char'_string'",
    "    fi",
    "  done",
    "}",
    "",
    "# Intialize all getopts flag counters equal to 0",
    "function initialize_flag_counters() {",
    "  for char in {a..z} {0..9}",
    "  do",
    "    if [[ $getopts_parameter_string =~ $char ]]; then",
    "      eval 'flag_'$char'=0'",
    "    fi",
    "  done",
    "}",
    "",
    "# Sum up all the flag counters",
    "function sum_exp6_flags() {",
    "  SUM_EXP6=0",
    "  for char in {a..z} {0..9}",
    "  do",
    "    if [[ $getopts_parameter_string =~ $char ]]; then",
    "      eval 'SUM_EXP6=$((SUM_EXP6+flag_'$char'**6))'",
    "    fi",
    "  done",
    "}",
    "",
    "# Add the flag counters and assign variable based on flag string",
    "# Args:",
    "#     $1 - option char (e.g. a, b, c, etc.)",
    "#     $2 - value assignment (e.g ${OPTARG})",
    "function add_assign_getopts() {",
    "  eval 'var_name=${flag_'$1'_string#*[[:blank:]]}'",
    "  eval $var_name'='$2",
    "  eval 'flag_'$1'=$((flag_'$1'+1))'",
    "}",
    "",
    "initialize_flag_counters",
    "while getopts $getopts_parameter_string option",
    "do",
    "  case \"${option}\" in",
    "",
    "    h )",
    "    echo \"$usage_help\"",
    "    echo \"\"",
    "    echo \"$full_help\"",
    "    exit $sucess_code;;",
    "",
    "    : )",
    "    echo \"Invalid option: -$OPTARG requires an argument\" 1>&2",
    "    echo $usage_help",
    "    exit $missing_argument_code;;",
    "",
    "    * )",
    "    # Assign and add flag counter for parameter, if",
    "    # in getopts_parameter_string",
    "    if [[ $getopts_parameter_string =~ ${option} ]]; then",
    "      add_assign_getopts \"${option}\" ${OPTARG}",
    "    fi",
    "    # The following line is a trick used to see if any of the flags have been",
    "    # defined twice. By exponentiating all flag counters by 6, unless there are",
    "    # more short arguments defined, a summed counter value of all flags should",
    "    # only be 36 as there are only 36 alpha-numeral characters. We chose the",
    "    # lowest number to exponentiate by to prevent accidental overloading.",
    "    sum_exp6_flags",
    "    if [[ $SUM_EXP6 -gt 36 ]]; then",
    "      current_flag_index=$(($OPTIND-2))",
    "      echo \"Replicate flag: ${!current_flag_index} has already been\"      \"specified\"",
    "      echo \"$usage_help\"",
    "      exit $replicate_flag_code",
    "    fi;;&",
    "",
    "    \\? )",
    "    echo Not a valid option",
    "    echo $usage_help",
    "    exit $invalid_argument_code;;",
    "  esac",
    "done",
    "">>

color_function ==
  <<"setup_colors() {",
    "  if  [[ -t 2 ]] && [[ -z \"${NO_COLOR-}\" ]] && [[ \"${TERM-}\" != \"dumb\" ]]; then",
    "    NOFORMAT='\\033[0m' RED='\\033[0;31m' GREEN='\\033[0;32m' ORANGE='\\033[0;33m' BLUE='\\033[0;34m' PURPLE='\\033[0;35m' CYAN='\\033[0;36m' YELLOW='\\033[1;33m'",
    "  else",
    "    NOFORMAT='' RED='' GREEN='' ORANGE='' BLUE='' PURPLE='' CYAN='' YELLOW=''",
    "  fi",
    "} ",
    "">>

(***************************************************************************)
(* The fragments that depend on the generator's options only.              *)
(***************************************************************************)
add_useful_vars(a) == useful_vars

add_safety(a) ==
  (IF a.strict THEN <<"set -Eeuo pipefail ">> ELSE <<>>)
    \o (IF a.cleanup THEN <<"trap cleanup SIGINT SIGTERM ERR EXIT ", "">> ELSE <<>>)

add_cleanup_function(a) ==
  IF ~a.cleanup THEN <<>> ELSE cleanup_function

add_flags_functions(a) == flag_functions

add_colors_function(a) ==
  IF a.no_color THEN <<>> ELSE color_function

call_functions(a) == <<"check_all_mandatory_flags", "setup_colors">>

\* main's  content += "\n# SCRIPT STARTS HERE\n"
script_starts_here == <<"", "# SCRIPT STARTS HERE">>

(***************************************************************************)
(* add_headers                                                             *)
(***************************************************************************)
\* date.today().strftime("%m/%d/%Y")
today == <<"1","1","/","0","5","/","2","0","2","6">>

header_prefix == <<"#", " ">>

\* 79 - len(prefix)
header_width == 79 - Len(header_prefix)

add_headers(d, au) ==
  <<"#","!","/","u","s","r","/","b","i","n","/","e","n","v"," ","b","a","s","h",NL,"#",NL>>
    \o header_prefix
    \o d.short \o <<NL>> \o header_prefix \o <<NL>>
    \o header_prefix \o split_string_length(d.long, header_width, header_prefix)
    \o header_prefix \o <<NL>>
    \o header_prefix \o <<"D","a","t","e"," ","C","r","e","a","t","e","d",":"," ">> \o today
    \o <<NL,"#"," ",NL,"#"," ","A","u","t","h","o","r","(","s",")",":"," ">>
    \o au \o <<NL,NL,NL>>

(***************************************************************************)
(* add_flags_data                                                          *)
(***************************************************************************)
help_data ==
  [short |-> <<"h">>,
   takes_value |-> FALSE,
   mandatory |-> FALSE,
   description |-> <<"S","h","o","w"," ","t","h","i","s"," ","h","e","l","p"," ",
                     "m","e","s","s","a","g","e"," ","a","n","d"," ","e","x","i","t",".">>]

\* variable = "flag_" + flag_data['short'] + "_string"
variable(f) ==
  <<"f","l","a","g","_">> \o f.short \o <<"_","s","t","r","i","n","g">>

\* what one descriptor adds to flag_var_strings
flag_var_piece(f) ==
  IF f.short # <<"h">>
    THEN variable(f) \o <<"=","\"","-">> \o f.short \o <<" ">> \o f.varname \o <<"\"",NL>>
    ELSE <<>>

\* what one descriptor adds to parameter_string
parameter_piece(f) ==
  f.short \o (IF f.takes_value THEN <<":">> ELSE <<>>)

\* what one descriptor adds to mandatory_string
mandatory_piece(f) ==
  IF f.mandatory THEN f.short ELSE <<>>

\* a usage line that forgets the space between two flags
usage_piece_nospace(f) ==
  IF f.mandatory THEN <<"$">> \o variable(f)
  ELSE IF f.short = <<"h">> THEN <<" ","[","-","h","]">>
  ELSE <<" ","[","$">> \o variable(f) \o <<"]">>

\* what one descriptor adds to usage_help_string
usage_piece(f) ==
  IF f.mandatory THEN <<" ","$">> \o variable(f)
  ELSE IF f.short = <<"h">> THEN <<" ","[","-","h","]">>
  ELSE <<" ","[","$">> \o variable(f) \o <<"]">>

help_indent ==
  <<NL," "," "," "," "," "," "," "," "," "," "," "," "," "," "," ",
       " "," "," "," "," "," "," "," "," "," "," "," "," "," ">>

\* the width descriptions are wrapped to in the help text
help_width == 50

\* what one descriptor adds to full_required_help_string
required_help_piece(f) ==
  IF f.mandatory
    THEN <<"$">> \o variable(f) \o help_indent
           \o split_string_length(f.description, help_width, <<>>)
    ELSE <<>>

\* what one descriptor adds to full_optional_help_string
optional_help_piece(f) ==
  IF f.mandatory THEN <<>>
  ELSE (IF f.short = <<"h">> THEN <<"-","h">> ELSE <<"$">> \o variable(f))
         \o help_indent \o split_string_length(f.description, help_width, <<>>)

\* the for loop over flags_data, for one of the strings it builds
\* what one turn of the loop adds to the string named
loop_piece(name, f) ==
  CASE name = "flag_var_strings" -> flag_var_piece(f)
    [] name = "parameter_string" -> parameter_piece(f)
    [] name = "mandatory_string" -> mandatory_piece(f)
    [] name = "usage_help_string" -> usage_piece(f)
    [] name = "full_optional_help_string" -> optional_help_piece(f)
    [] name = "full_required_help_string" -> required_help_piece(f)

RECURSIVE flags_loop(_, _, _, _)
flags_loop(name, flags_data, i, acc) ==
  IF i > Len(flags_data) THEN acc
  ELSE flags_loop(name, flags_data, i + 1, acc \o loop_piece(name, flags_data[i]))

\* the width the usage line is wrapped to
usage_width == 80

\* the width the long description is wrapped to in the help text
long_width == 120

usage_head ==
  <<"u","s","a","g","e","_","h","e","l","p","=","$","(","c","a","t"," ","<","<","E","O","F",NL>>

usage_tail == <<"E","O","F",NL,")",NL>>

\* the three strings add_flags_data returns the concatenation of
add_flags_data(a, flags_data, d) ==
  LET flag_var_strings == flags_loop("flag_var_strings", flags_data, 1, <<>>)
      parameter_string ==
        flags_loop("parameter_string", flags_data, 1,
          <<"g","e","t","o","p","t","s","_","p","a","r","a","m","e","t","e","r","_",
            "s","t","r","i","n","g","=","\"",":">>) \o <<"\"">>
      mandatory_string ==
        flags_loop("mandatory_string", flags_data, 1,
          <<"m","a","n","d","a","t","o","r","y","_","f","l","a","g","s","=","\"">>)
          \o <<"\"">>
      usage_help_string ==
        flags_loop("usage_help_string", flags_data, 1,
          <<"U","s","a","g","e",":"," ","$","s","c","r","i","p","t","_","n","a","m","e">>)
      full_optional_help_string ==
        flags_loop("full_optional_help_string", flags_data, 1,
          <<"o","p","t","i","o","n","a","l"," ","a","r","g","u","m","e","n","t","s",":",NL>>)
      full_required_help_string ==
        flags_loop("full_required_help_string", flags_data, 1,
          <<"r","e","q","u","i","r","e","d"," ","a","r","g","u","m","e","n","t","s",":",NL>>)
  IN  [flag_string |->
         <<"#"," ","F","l","a","g"," ","s","t","r","i","n","g","s",NL>>
           \o flag_var_strings \o <<NL>>
           \o parameter_string \o <<NL>>
           \o mandatory_string \o <<NL>>,
       usage_string |->
         usage_head \o split_string_length(usage_help_string, usage_width, <<>>)
           \o usage_tail,
       full_help_string |->
         <<"f","u","l","l","_","h","e","l","p","=","$","(","c","a","t"," ","<","<","E","O","F",NL>>
           \o split_string_length(d.long, long_width, <<>>)
           \o <<NL>> \o full_optional_help_string
           \o <<NL>> \o full_required_help_string
           \o <<NL,"E","O","F",NL,")",NL>>]

\* return flag_string + "\n" + usage_string + "\n" + full_help_string + "\n"
flags_text(r) ==
  r.flag_string \o <<NL>> \o r.usage_string \o <<NL>> \o r.full_help_string \o <<NL>>

(***************************************************************************)
(* main: the script text is the concatenation of these fragments, in this  *)
(* order.  The text of add_flags_data is kept as the three strings it      *)
(* joins with newlines; the fixed fragments are kept as lines.             *)
(***************************************************************************)
Fragment(by, text) == [by |-> by, text |-> text]

main_content(a, d, au, flags_data) ==
  <<Fragment("add_headers", add_headers(d, au)),
    Fragment("add_useful_vars", add_useful_vars(a)),
    Fragment("add_safety", add_safety(a)),
    Fragment("add_cleanup_function", add_cleanup_function(a)),
    Fragment("add_flags_data", add_flags_data(a, flags_data, d)),
    Fragment("add_flags_functions", add_flags_functions(a)),
    Fragment("add_colors_function", add_colors_function(a)),
    Fragment("call_functions", call_functions(a)),
    Fragment("main", script_starts_here)>>

(***************************************************************************)
(* The filters sanitize_input runs on a typed line.  A filter returns a    *)
(* value or raises KeyError.                                               *)
(***************************************************************************)
Ok(v) == [ok |-> TRUE, val |-> v]

KeyError == [ok |-> FALSE, val |-> <<>>]

\* the dict of input_bool's lambda
input_bool_dict ==
  {[key |-> <<"t","r","u","e">>, value |-> TRUE],
   [key |-> <<"f","a","l","s","e">>, value |-> FALSE],
   [key |-> <<"t">>, value |-> TRUE],
   [key |-> <<"f">>, value |-> FALSE],
   [key |-> <<"y","e","s">>, value |-> TRUE],
   [key |-> <<"n","o">>, value |-> FALSE],
   [key |-> <<"y">>, value |-> TRUE],
   [key |-> <<"n">>, value |-> FALSE]}

\* the dict of the builder prompt's lambda: the value says whether to exit
command_dict ==
  {[key |-> <<"a">>, value |-> FALSE],
   [key |-> <<"x">>, value |-> TRUE]}

\* dict[key], raising KeyError for a key the dict does not hold
Lookup(dict, key) ==
  IF \E e \in dict : e.key = key
    THEN Ok((CHOOSE e \in dict : e.key = key).value)
    ELSE KeyError

\* a yes/no filter that forgets x.lower()
input_bool_filter_case_sensitive(x) == Lookup(input_bool_dict, x)

\* lambda x: {...}[x.lower()]  of input_bool
input_bool_filter(x) == Lookup(input_bool_dict, lower(x))

\* lambda x: {"a":False,"x":True}[x.lower()]  of get_flags_data
command_filter(x) == Lookup(command_dict, lower(x))

\* the default filter_func of sanitize_input, lambda x: x
identity_filter(x) == Ok(x)

\* lambda x: (x + ".sh")  of create_script
script_name_filter(x) == Ok(x \o <<".","s","h">>)

check_lowercase_alpha(letter) ==
  IF IsSubstring(letter, ascii_lowercase) THEN Ok(letter) ELSE KeyError

\* the characters the class [^_|^a-z|^A-Z] does not match
varname_class ==
  Range(ascii_lowercase) \cup Range(ascii_uppercase) \cup {"_", "|", "^"}

\* re.match: the pattern, one character long, is tried at the start only
re_match_varname(varname) ==
  Len(varname) >= 1 /\ varname[1] \notin varname_class

check_uppercase_underscored(varname) ==
  IF re_match_varname(varname) THEN KeyError ELSE Ok(upper(varname))

\* the message check_uppercase_underscored prints before it forces uppercase
caps_warning == "Variable name should be in all caps, forcing uppercase."

error_msg == "Invalid Input."

(***************************************************************************)
(* Spec: the generator run at the console.  Every prompt is one action,    *)
(* taking the line typed; KeyboardInterrupt is the interrupt signal.       *)
(***************************************************************************)
BoolLines ==
  {<<"y">>, <<"N","o">>, <<"m","a","y","b","e">>}

CommandLines ==
  {<<"a">>, <<"X">>, <<"a","x">>}

ShortLines ==
  {<<"a">>, <<"h">>, <<>>, <<"B">>}

VarLines ==
  {<<"a","b">>, <<"a","1">>, <<"1","a">>}

TextLines == {<<"d","o"," ","i","t">>}

ShortDescriptionLines == {<<"s">>}

LongDescriptionLines == {<<"l"," ","l">>}

AuthorLines == {<<"m","e">>}

ScriptNameLines == {<<"r","u","n">>}

\* the option combinations the console run is explored under
MainArgs ==
  {a \in [strict : BOOLEAN, no_color : BOOLEAN, cleanup : BOOLEAN,
          amend_parameters : BOOLEAN, variable_lowercase : BOOLEAN] :
     /\ ~a.strict
     /\ ~a.no_color
     /\ ~a.cleanup
     /\ ~a.amend_parameters}

\* the prompts that go through sanitize_input
SanitizedPrompts ==
  {"add_descriptions", "short_description", "long_description", "command",
   "short", "varname", "takes_value", "mandatory", "description", "script_name"}

Typed(line) == [kind |-> "line", text |-> line]

\* a builder that refuses a short letter it already holds
flag_data_append_unique(flags, d) ==
  IF \E i \in 1..Len(flags) : flags[i].short = d.short
    THEN flags
    ELSE Append(flags, d)

\* flag_data.append(get_individual_flag_data(args))
flag_data_append(flags, d) == Append(flags, d)

Init ==
  /\ pc = "add_descriptions"
  /\ args \in MainArgs
  /\ descriptions =
       [long |-> <<"T","O","D","O"," ","<","L","O","N","G","_",
                   "D","E","S","C","R","I","P","T","I","O","N",">">>,
        short |-> <<"T","O","D","O"," ","<","S","H","O","R","T","_",
                    "D","E","S","C","R","I","P","T","I","O","N",">">>]
  /\ flag_data = <<>>
  /\ data = <<>>
  /\ last = [kind |-> "none", text |-> <<>>]
  /\ out = ""
  /\ adds = 0
  /\ author = <<>>
  /\ content = <<>>
  /\ IdleWrap
  /\ IdleLoop

\* input_bool("Add in script description [True/False]: ")
GetScriptDescriptions(line) ==
  /\ pc = "add_descriptions"
  /\ last' = Typed(line)
  /\ LET r == input_bool_filter(line)
     IN  IF r.ok
           THEN /\ pc' = (IF r.val THEN "short_description" ELSE "author")
                /\ out' = out
           ELSE /\ pc' = pc
                /\ out' = error_msg
  /\ UNCHANGED <<args, descriptions, flag_data, data, adds, author, content>>
  /\ UNCHANGED <<wrapVars, loopVars>>

\* sanitize_input("Short description: ")
ShortDescription(line) ==
  /\ pc = "short_description"
  /\ last' = Typed(line)
  /\ LET r == identity_filter(line)
     IN  IF r.ok
           THEN /\ pc' = "long_description"
                /\ descriptions' = [descriptions EXCEPT !.short = r.val]
                /\ out' = out
           ELSE /\ pc' = pc
                /\ descriptions' = descriptions
                /\ out' = error_msg
  /\ UNCHANGED <<args, flag_data, data, adds, author, content>>
  /\ UNCHANGED <<wrapVars, loopVars>>

\* sanitize_input("Long description: ")
LongDescription(line) ==
  /\ pc = "long_description"
  /\ last' = Typed(line)
  /\ LET r == identity_filter(line)
     IN  IF r.ok
           THEN /\ pc' = "author"
                /\ descriptions' = [descriptions EXCEPT !.long = r.val]
                /\ out' = out
           ELSE /\ pc' = pc
                /\ descriptions' = descriptions
                /\ out' = error_msg
  /\ UNCHANGED <<args, flag_data, data, adds, author, content>>
  /\ UNCHANGED <<wrapVars, loopVars>>

\* input("Author: ") in add_headers, then main up to get_flags_data's prompt
AddHeaders(line) ==
  /\ pc = "author"
  /\ last' = Typed(line)
  /\ author' = line
  /\ flag_data' = <<help_data>>
  /\ pc' = "command"
  /\ UNCHANGED <<args, descriptions, data, out, adds, content>>
  /\ UNCHANGED <<wrapVars, loopVars>>

\* the builder prompt of get_flags_data; on exit, main up to create_script's prompt
GetFlagsData(line) ==
  /\ pc = "command"
  /\ last' = Typed(line)
  /\ LET r == command_filter(line)
     IN  IF ~r.ok
           THEN /\ pc' = pc
                /\ out' = error_msg
                /\ adds' = adds
         ELSE IF r.val
           THEN /\ pc' = "script_name"
                /\ out' = out
                /\ adds' = adds
         ELSE /\ adds < MaxFlags
              /\ pc' = "short"
              /\ out' = out
              /\ adds' = adds + 1
  /\ UNCHANGED <<args, descriptions, flag_data, data, author, content>>
  /\ UNCHANGED <<wrapVars, loopVars>>

\* sanitize_input("Short hand (a-z): ", check_lowercase_alpha)
FlagShort(line) ==
  /\ pc = "short"
  /\ last' = Typed(line)
  /\ LET r == check_lowercase_alpha(line)
     IN  IF r.ok
           THEN /\ pc' = "varname"
                /\ data' = [short |-> r.val]
                /\ out' = out
           ELSE /\ pc' = pc
                /\ data' = data
                /\ out' = error_msg
  /\ UNCHANGED <<args, descriptions, flag_data, adds, author, content>>
  /\ UNCHANGED <<wrapVars, loopVars>>

\* sanitize_input("Variable Name: ", check_uppercase_underscored)
FlagVarname(line) ==
  /\ pc = "varname"
  /\ last' = Typed(line)
  /\ LET r == check_uppercase_underscored(line)
     IN  IF r.ok
           THEN /\ pc' = "takes_value"
                /\ data' = [short |-> data.short, varname |-> r.val]
                /\ out' = (IF upper(line) # line THEN caps_warning ELSE out)
           ELSE /\ pc' = pc
                /\ data' = data
                /\ out' = error_msg
  /\ UNCHANGED <<args, descriptions, flag_data, adds, author, content>>
  /\ UNCHANGED <<wrapVars, loopVars>>

\* input_bool("Should flag take value? ")
FlagTakesValue(line) ==
  /\ pc = "takes_value"
  /\ last' = Typed(line)
  /\ LET r == input_bool_filter(line)
     IN  IF r.ok
           THEN /\ pc' = "mandatory"
                /\ data' = [short |-> data.short, varname |-> data.varname,
                            takes_value |-> r.val]
                /\ out' = out
           ELSE /\ pc' = pc
                /\ data' = data
                /\ out' = error_msg
  /\ UNCHANGED <<args, descriptions, flag_data, adds, author, content>>
  /\ UNCHANGED <<wrapVars, loopVars>>

\* input_bool("Mandatory Variable? ")
FlagMandatory(line) ==
  /\ pc = "mandatory"
  /\ last' = Typed(line)
  /\ LET r == input_bool_filter(line)
     IN  IF r.ok
           THEN /\ pc' = "description"
                /\ data' = [short |-> data.short, varname |-> data.varname,
                            takes_value |-> data.takes_value,
                            mandatory |-> r.val]
                /\ out' = out
           ELSE /\ pc' = pc
                /\ data' = data
                /\ out' = error_msg
  /\ UNCHANGED <<args, descriptions, flag_data, adds, author, content>>
  /\ UNCHANGED <<wrapVars, loopVars>>

\* sanitize_input("Help description: "), the append and print("Flag added...")
FlagDescription(line) ==
  /\ pc = "description"
  /\ last' = Typed(line)
  /\ LET r == identity_filter(line)
     IN  IF r.ok
           THEN /\ pc' = "command"
                /\ flag_data' = flag_data_append(flag_data,
                     [short |-> data.short, varname |-> data.varname,
                      takes_value |-> data.takes_value,
                      mandatory |-> data.mandatory,
                      description |-> r.val])
                /\ data' = <<>>
                /\ out' = "Flag added..."
           ELSE /\ pc' = pc
                /\ flag_data' = flag_data
                /\ data' = data
                /\ out' = error_msg
  /\ UNCHANGED <<args, descriptions, adds, author, content>>
  /\ UNCHANGED <<wrapVars, loopVars>>

\* sanitize_input("Script name (don't add extension): ", ...) and f.write(content)
CreateScript(line) ==
  /\ pc = "script_name"
  /\ last' = Typed(line)
  /\ LET r == script_name_filter(line)
     IN  IF r.ok
           THEN /\ pc' = "done"
                /\ out' = out
                /\ content' = main_content(args, descriptions, author, flag_data)
           ELSE /\ pc' = pc
                /\ out' = error_msg
                /\ content' = content
  /\ UNCHANGED <<args, descriptions, flag_data, data, adds, author>>
  /\ UNCHANGED <<wrapVars, loopVars>>

\* the interrupt signal while the program waits at a prompt: sanitize_input
\* turns it into sys.exit("\nExiting"); nothing catches it around input("Author: ")
KeyboardInterrupt ==
  /\ pc \in SanitizedPrompts \cup {"author"}
  /\ last' = [kind |-> "interrupt", text |-> <<>>]
  /\ IF pc \in SanitizedPrompts
       THEN /\ pc' = "SystemExit"
            /\ out' = "\nExiting"
       ELSE /\ pc' = "KeyboardInterrupt"
            /\ out' = out
  /\ UNCHANGED <<args, descriptions, flag_data, data, adds, author, content>>
  /\ UNCHANGED <<wrapVars, loopVars>>

Next ==
  \/ \E line \in BoolLines : GetScriptDescriptions(line)
  \/ \E line \in ShortDescriptionLines : ShortDescription(line)
  \/ \E line \in LongDescriptionLines : LongDescription(line)
  \/ \E line \in AuthorLines : AddHeaders(line)
  \/ \E line \in CommandLines : GetFlagsData(line)
  \/ \E line \in ShortLines : FlagShort(line)
  \/ \E line \in VarLines : FlagVarname(line)
  \/ \E line \in BoolLines : FlagTakesValue(line)
  \/ \E line \in BoolLines : FlagMandatory(line)
  \/ \E line \in TextLines : FlagDescription(line)
  \/ \E line \in ScriptNameLines : CreateScript(line)
  \/ KeyboardInterrupt

Spec == Init /\ [][Next]_vars

(***************************************************************************)
(* Claims about the console run.                                           *)
(***************************************************************************)
\* C3: after n 'A' commands and 'X', get_flags_data returns n+1 descriptors,
\* the built-in help descriptor (short 'h', no value, optional) first; every
\* descriptor entered is appended at the end, whatever short letters the list
\* already holds (none is rejected or merged), and nothing else changes the list.
C3_AddsAppendInOrder ==
  /\ [](pc \in {"script_name", "done"} =>
          /\ Len(flag_data) = adds + 1
          /\ flag_data[1].short = <<"h">>
          /\ ~flag_data[1].takes_value
          /\ ~flag_data[1].mandatory)
  /\ [][/\ (pc = "description" /\ pc' = "command") =>
             /\ Len(flag_data') = Len(flag_data) + 1
             /\ SubSeq(flag_data', 1, Len(flag_data)) = flag_data
             /\ flag_data'[Len(flag_data')].short = data.short
             /\ flag_data'[Len(flag_data')].varname = data.varname
        /\ (flag_data' # flag_data /\ flag_data # <<>>) =>
             (pc = "description" /\ pc' = "command")]_vars

\* two adds and an exit, both user descriptors reusing the help flag's letter
C3_Witness ==
  /\ pc = "done"
  /\ adds = 2
  /\ Len(flag_data) = 3
  /\ flag_data[2].short = <<"h">>
  /\ flag_data[3].short = <<"h">>

YesWords ==
  {<<"t","r","u","e">>, <<"t">>, <<"y","e","s">>, <<"y">>}

NoWords ==
  {<<"f","a","l","s","e">>, <<"f">>, <<"n","o">>, <<"n">>}

BoolPrompts == {"add_descriptions", "takes_value", "mandatory"}

Rejected ==
  /\ pc' = pc
  /\ out' = "Invalid Input."
  /\ flag_data' = flag_data
  /\ data' = data
  /\ descriptions' = descriptions

\* C4: at a yes/no prompt and at the builder prompt, an answer that is not,
\* case-insensitively, one of true/false/t/f/yes/no/y/n (respectively a/x) is
\* answered with "Invalid Input." and the same prompt, changing no descriptor;
\* a valid answer is taken with the boolean it maps to.
C4_InvalidAnswersReprompt ==
  [][last'.kind = "line" =>
       LET answer == lower(last'.text)
       IN  /\ (pc \in BoolPrompts /\ answer \notin YesWords \cup NoWords) => Rejected
           /\ (pc = "command" /\ answer \notin {<<"a">>, <<"x">>}) => Rejected
           /\ (pc = "add_descriptions" /\ answer \in YesWords) =>
                pc' = "short_description"
           /\ (pc = "add_descriptions" /\ answer \in NoWords) => pc' = "author"
           /\ (pc = "takes_value" /\ answer \in YesWords \cup NoWords) =>
                (pc' = "mandatory" /\ data'.takes_value = (answer \in YesWords))
           /\ (pc = "mandatory" /\ answer \in YesWords \cup NoWords) =>
                (pc' = "description" /\ data'.mandatory = (answer \in YesWords))
           /\ (pc = "command" /\ answer = <<"x">>) => pc' = "script_name"
           /\ (pc = "command" /\ answer = <<"a">>) => pc' = "short"]_vars

\* an invalid answer to "Mandatory Variable? " after a valid, mixed-case "No"
C4_Witness ==
  /\ pc = "mandatory"
  /\ data.takes_value = FALSE
  /\ last = [kind |-> "line", text |-> <<"m","a","y","b","e">>]
  /\ out = "Invalid Input."

Letters == Range(ascii_lowercase) \cup Range(ascii_uppercase)

\* C5: every descriptor get_individual_flag_data returns has a short field of
\* exactly one character from a-z and a varname of letters and underscores only.
C5_DescriptorsWellFormed ==
  \A i \in 2..Len(flag_data) :
    /\ Len(flag_data[i].short) = 1
    /\ flag_data[i].short[1] \in Range(ascii_lowercase)
    /\ \A j \in 1..Len(flag_data[i].varname) :
         flag_data[i].varname[j] \in Letters \cup {"_"}

\* C6: an interrupt at any prompt ends the program through sys.exit("\nExiting").
C6_InterruptExitsCleanly ==
  last.kind = "interrupt" => (pc = "SystemExit" /\ out = "\nExiting")

\* C7: a variable name is stored in uppercase by default, and exactly as typed
\* when the generator runs with -u/--variable_lowercase.
C7_LowercaseOptionKeepsCase ==
  [][(pc = "varname" /\ pc' = "takes_value") =>
       data'.varname = (IF args.variable_lowercase
                          THEN last'.text
                          ELSE upper(last'.text))]_vars

RECURSIVE Flatten(_)
Flatten(seqs) ==
  IF seqs = <<>> THEN <<>> ELSE Head(seqs) \o Flatten(Tail(seqs))

\* the line of flag_string that is k lines before its end
FlagStringLine(r, k) ==
  LET lines == Split(r.flag_string, NL)
  IN  lines[Len(lines) - k]

\* what stands between the quotes of  name="..."
Quoted(line) ==
  LET quotes == {i \in 1..Len(line) : line[i] = "\""}
      first == CHOOSE i \in quotes : \A j \in quotes : i <= j
  IN  SubSeq(line, first + 1, Len(line) - 1)

\* the values the generated script gives getopts_parameter_string and
\* mandatory_flags
ParameterValue(r) == Quoted(FlagStringLine(r, 2))

MandatoryValue(r) == Quoted(FlagStringLine(r, 1))

\* C8: getopts_parameter_string is ":" and then, per descriptor in list order,
\* its short letter, followed by ":" exactly when it takes a value;
\* mandatory_flags is the short letters of the mandatory descriptors in order;
\* so a letter is in mandatory_flags iff a descriptor with that letter is
\* mandatory, and 'h' comes first in getopts_parameter_string without a ":".
C8_ParameterAndMandatoryStrings ==
  pc = "done" =>
    LET r == content[5].text
        parameter == ParameterValue(r)
        mandatory == MandatoryValue(r)
    IN  /\ parameter = <<":">> \o Flatten(
             [i \in 1..Len(flag_data) |->
                flag_data[i].short
                  \o (IF flag_data[i].takes_value THEN <<":">> ELSE <<>>)])
        /\ mandatory = Flatten(
             [i \in 1..Len(flag_data) |->
                IF flag_data[i].mandatory THEN flag_data[i].short ELSE <<>>])
        /\ \A c \in Range(ascii_lowercase) :
             (c \in Range(mandatory)) <=>
               (\E i \in 1..Len(flag_data) :
                  flag_data[i].mandatory /\ flag_data[i].short = <<c>>)
        /\ parameter[2] = "h"
        /\ Len(parameter) >= 3 => parameter[3] # ":"

\* C8 for the lists in which every short is one lowercase letter
C8_HoldsForSingleLetters ==
  (\A i \in 1..Len(flag_data) :
     Len(flag_data[i].short) = 1 /\ flag_data[i].short[1] \in Range(ascii_lowercase))
    => C8_ParameterAndMandatoryStrings

(***************************************************************************)
(* SpecAssemble: the fragments main puts together, one at a time, under    *)
(* every combination of the generator's options; no descriptions, no user  *)
(* descriptors.                                                            *)
(***************************************************************************)
AllArgs ==
  [strict : BOOLEAN, no_color : BOOLEAN, cleanup : BOOLEAN,
   amend_parameters : BOOLEAN, variable_lowercase : BOOLEAN]

InitAssemble ==
  /\ pc = "assemble"
  /\ args \in AllArgs
  /\ descriptions =
       [long |-> <<"T","O","D","O"," ","<","L","O","N","G","_",
                   "D","E","S","C","R","I","P","T","I","O","N",">">>,
        short |-> <<"T","O","D","O"," ","<","S","H","O","R","T","_",
                    "D","E","S","C","R","I","P","T","I","O","N",">">>]
  /\ flag_data = <<help_data>>
  /\ data = <<>>
  /\ last = <<>>
  /\ out = ""
  /\ adds = 0
  /\ author = <<"m","e">>
  /\ content = <<>>
  /\ IdleWrap
  /\ IdleLoop

\* content += the next fragment
Assemble ==
  /\ pc = "assemble"
  /\ LET whole == main_content(args, descriptions, author, flag_data)
     IN  /\ content' = Append(content, whole[Len(content) + 1])
         /\ pc' = (IF Len(content) + 1 = Len(whole) THEN "assembled" ELSE pc)
  /\ UNCHANGED <<args, descriptions, flag_data, data, last, out, adds, author>>
  /\ UNCHANGED <<wrapVars, loopVars>>

NextAssemble == Assemble

SpecAssemble == InitAssemble /\ [][NextAssemble]_vars

\* the lines of the fragments of fixed text
FixedLines(text) ==
  Flatten([i \in 1..Len(text) |->
             IF text[i].by \in {"add_headers", "add_flags_data"}
               THEN <<>>
               ELSE text[i].text])

HasLine(text, line) == line \in Range(FixedLines(text))

\* C10: every shell function the script refers to by name, as a call or a trap
\* handler, is defined in the script; the trap line is there iff cleanup() is,
\* and the setup_colors call iff setup_colors() is.
C10_ReferencedFunctionsDefined ==
  pc = "assembled" =>
    /\ HasLine(content, "check_all_mandatory_flags") =>
         HasLine(content, "function check_all_mandatory_flags() {")
    /\ HasLine(content, "initialize_flag_counters") =>
         HasLine(content, "function initialize_flag_counters() {")
    /\ HasLine(content, "trap cleanup SIGINT SIGTERM ERR EXIT ") <=>
         HasLine(content, " cleanup() {")
    /\ HasLine(content, "setup_colors") <=> HasLine(content, "setup_colors() {")

(***************************************************************************)
(* SpecFlags: add_flags_data on its own, over the descriptor lists         *)
(* get_flags_data can return: the help descriptor, then user descriptors.  *)
(* The descriptors differ in their short letter and in being mandatory,    *)
(* which is what the usage and help text depend on; all take a value.      *)
(***************************************************************************)
\* the answers every descriptor is given here at the other prompts
FlagsVarLine == <<"a","b">>

FlagsTakesValueLine == <<"y">>

FlagsTextLine == <<"d","o"," ","i","t">>

InitFlags ==
  /\ pc = "flags"
  /\ args = [strict |-> FALSE, no_color |-> FALSE, cleanup |-> FALSE,
             amend_parameters |-> FALSE, variable_lowercase |-> FALSE]
  /\ descriptions =
       [long |-> <<"T","O","D","O"," ","<","L","O","N","G","_",
                   "D","E","S","C","R","I","P","T","I","O","N",">">>,
        short |-> <<"T","O","D","O"," ","<","S","H","O","R","T","_",
                    "D","E","S","C","R","I","P","T","I","O","N",">">>]
  /\ flag_data = <<help_data>>
  /\ data = <<>>
  /\ last = <<>>
  /\ out = ""
  /\ adds = 0
  /\ author = <<>>
  /\ content = <<>>
  /\ IdleWrap
  /\ IdleLoop

\* one more descriptor, as get_individual_flag_data builds it
FlagsAppend(short_line, mandatory) ==
  /\ pc = "flags"
  /\ adds < MaxEmit
  /\ check_lowercase_alpha(short_line).ok
  /\ flag_data' = flag_data_append(flag_data,
       [short |-> check_lowercase_alpha(short_line).val,
        varname |-> check_uppercase_underscored(FlagsVarLine).val,
        takes_value |-> input_bool_filter(FlagsTakesValueLine).val,
        mandatory |-> mandatory,
        description |-> identity_filter(FlagsTextLine).val])
  /\ adds' = adds + 1
  /\ UNCHANGED <<pc, args, descriptions, data, last, out, author, content>>
  /\ UNCHANGED <<wrapVars, loopVars>>

\* content += add_flags_data(args, flags_data, descriptions)
FlagsEmit ==
  /\ pc = "flags"
  /\ content' =
       <<Fragment("add_flags_data", add_flags_data(args, flag_data, descriptions))>>
  /\ pc' = "emitted"
  /\ UNCHANGED <<args, descriptions, flag_data, data, last, out, adds, author>>
  /\ UNCHANGED <<wrapVars, loopVars>>

NextFlags ==
  \/ \E short_line \in ShortLines, mandatory \in BOOLEAN :
       FlagsAppend(short_line, mandatory)
  \/ FlagsEmit

SpecFlags == InitFlags /\ [][NextFlags]_vars

\* the usage text between "usage_help=$(cat <<EOF" and "EOF": the wrapped line
UsageText(r) ==
  SubSeq(r.usage_string, Len(usage_head) + 1,
         Len(r.usage_string) - Len(usage_tail))

\* the whitespace-separated words of a text, over all its lines
WordsOfText(text) ==
  WordsOf([i \in 1..Len(text) |-> IF text[i] = NL THEN " " ELSE text[i]])

RECURSIVE IsSubsequenceFrom(_, _, _, _)
IsSubsequenceFrom(e, w, i, j) ==
  IF i > Len(e) THEN TRUE
  ELSE IF j > Len(w) THEN FALSE
  ELSE IF e[i] = w[j] THEN IsSubsequenceFrom(e, w, i + 1, j + 1)
  ELSE IsSubsequenceFrom(e, w, i, j + 1)

\* the words of e occur among the words of w, in the order of e
IsSubsequence(e, w) == IsSubsequenceFrom(e, w, 1, 1)

\* "$flag_<short>_string"
Reference(short) ==
  <<"$","f","l","a","g","_">> \o short \o <<"_","s","t","r","i","n","g">>

\* the tokens C1 expects, one per descriptor: "[-h]" for the built-in help
\* descriptor only
TokensAsClaimed(flags) ==
  [i \in 1..Len(flags) |->
     IF flags[i].mandatory THEN Reference(flags[i].short)
     ELSE IF i = 1 THEN <<"[","-","h","]">>
     ELSE <<"[">> \o Reference(flags[i].short) \o <<"]">>]

\* the tokens with "[-h]" for every optional descriptor whose short is "h"
TokensAsAmended(flags) ==
  [i \in 1..Len(flags) |->
     IF flags[i].mandatory THEN Reference(flags[i].short)
     ELSE IF flags[i].short = <<"h">> THEN <<"[","-","h","]">>
     ELSE <<"[">> \o Reference(flags[i].short) \o <<"]">>]

\* C1 as stated: the wrapped usage text holds, as whole words and in descriptor
\* order, "$flag_<short>_string" for every mandatory descriptor and
\* "[$flag_<short>_string]" for every optional one, "[-h]" for the built-in help.
C1_UsageListsEveryFlag ==
  pc = "emitted" =>
    IsSubsequence(TokensAsClaimed(flag_data),
                  WordsOfText(UsageText(content[1].text)))

\* C1 amended: the same, with "[-h]" for every optional descriptor whose short
\* letter is "h", the built-in one and any user descriptor that reuses the letter.
C1_UsageListsEveryFlagHelpByLetter ==
  pc = "emitted" =>
    IsSubsequence(TokensAsAmended(flag_data),
                  WordsOfText(UsageText(content[1].text)))

\* a usage text that was wrapped, for a list with a mandatory descriptor, an
\* optional one and an optional one that reuses "h"
C1_Witness ==
  /\ pc = "emitted"
  /\ Len(LinesOf(UsageText(content[1].text), <<>>)) >= 2
  /\ \E i \in 2..Len(flag_data) : flag_data[i].mandatory
  /\ \E i \in 2..Len(flag_data) :
       ~flag_data[i].mandatory /\ flag_data[i].short = <<"a">>
  /\ \E i \in 2..Len(flag_data) :
       ~flag_data[i].mandatory /\ flag_data[i].short = <<"h">>

(***************************************************************************)
(* SpecWrap: split_string_length on its own, over every short string of    *)
(* letters and spaces, every small width and the two prefixes in use.      *)
(***************************************************************************)
WrapAlphabet == {"a", " "}

\* add_headers passes "# ", every other caller the default ""
WrapPrefixes == {<<>>, <<"#", " ">>}

InitWrap ==
  /\ pc = "wrap"
  /\ string \in StringsUpTo(WrapAlphabet, MaxLen)
  /\ max_length \in 1..MaxWidth
  /\ prefix \in WrapPrefixes
  /\ split_string = <<>>
  /\ IdleMain
  /\ IdleLoop

SplitStringLength ==
  /\ pc = "wrap"
  /\ split_string' = split_string_length(string, max_length, prefix)
  /\ pc' = "wrapped"
  /\ UNCHANGED <<string, max_length, prefix>>
  /\ UNCHANGED <<args, descriptions, flag_data, data, last, out, adds, author, content>>
  /\ UNCHANGED loopVars

NextWrap == SplitStringLength

SpecWrap == InitWrap /\ [][NextWrap]_vars

\* C2 as stated: no line of the result of split_string_length is longer than
\* max_length, except a line holding a single word longer than max_length.
C2_NoLineLongerThanMax ==
  pc = "wrapped" =>
    \A i \in DOMAIN LinesOf(split_string, prefix) :
      LET line == LinesOf(split_string, prefix)[i]
      IN  Len(line) <= max_length \/ SingleLongWord(line, max_length)

\* C2 amended: no line of the result, not counting the prefix and the one space
\* the function writes after the line's last word, is longer than max_length,
\* except a line holding a single word longer than max_length.
C2_NoLineLongerThanMaxPlusSpace ==
  pc = "wrapped" =>
    \A i \in DOMAIN LinesOf(split_string, prefix) :
      LET line == LinesOf(split_string, prefix)[i]
      IN  \/ line = <<>>
          \/ line[Len(line)] = " " /\ Len(line) - 1 <= max_length
          \/ SingleLongWord(line, max_length)

\* a wrapped text with a full line of several words and a line of one long word
C2_Witness ==
  /\ pc = "wrapped"
  /\ \E i \in DOMAIN LinesOf(split_string, prefix) :
       LET line == LinesOf(split_string, prefix)[i]
       IN  Len(WordsOf(line)) >= 2 /\ Len(line) = max_length + 1
  /\ \E i \in DOMAIN LinesOf(split_string, prefix) :
       SingleLongWord(LinesOf(split_string, prefix)[i], max_length)


(***************************************************************************)
(* SpecLoop: the option-parsing loop of the script the generator writes,   *)
(* run on a command line.  A word of the command line is an option "-c" or *)
(* a plain value.                                                          *)
(***************************************************************************)
sucess_code == 0

replicate_flag_code == 1

invalid_argument_code == 2

missing_argument_code == 3

\* for char in {a..z} {0..9}
digits == <<"0","1","2","3","4","5","6","7","8","9">>

counter_chars == ascii_lowercase \o digits

\* [[ $getopts_parameter_string =~ $char ]]
CountersOf(parameter) == Range(counter_chars) \cap Range(parameter)

RECURSIVE SumOver(_, _, _)
SumOver(chars, counters, exponent) ==
  IF chars = {} THEN 0
  ELSE LET c == CHOOSE x \in chars : TRUE
       IN  counters[c] ^ exponent + SumOver(chars \ {c}, counters, exponent)

sum_exp1_flags(parameter, counters) ==
  SumOver(CountersOf(parameter), counters, 1)

sum_exp6_flags(parameter, counters) ==
  SumOver(CountersOf(parameter), counters, 6)

\* getopts: does option letter c take a value, by its first place in the string
TakesValue(parameter, c) ==
  LET places == {j \in 1..Len(parameter) : parameter[j] = c}
      i == CHOOSE j \in places : \A k \in places : j <= k
  IN  i < Len(parameter) /\ parameter[i + 1] = ":"

Option(c) == [dash |-> TRUE, c |-> c]

Value == [dash |-> FALSE, c |-> "v"]

\* the option strings the generator writes for lists of user descriptors
LoopShorts == {"a", "b"}

LoopDescriptors ==
  { [short |-> <<c>>, varname |-> <<"X">>, takes_value |-> t,
     mandatory |-> FALSE, description |-> <<"x">>] :
      c \in LoopShorts, t \in BOOLEAN }

LoopLists ==
  UNION { [1..n -> LoopDescriptors] : n \in 0..2 }

\* a script with a counter for every one of the 36 characters
FullParameter == <<":">> \o counter_chars

LoopParameterStrings ==
  { flags_loop("parameter_string", <<help_data>> \o fd, 1, <<":">>) : fd \in LoopLists }
    \cup {FullParameter}

LoopWords == {Option("a"), Option("b"), Option("h"), Option("z"), Value}

\* every option but -h once
EachOnce ==
  LET others == SelectSeq(counter_chars, LAMBDA c : c # "h")
  IN  [i \in 1..Len(others) |-> Option(others[i])]

LoopCommandLines ==
  UNION { [1..n -> LoopWords] : n \in 0..MaxOpts }
    \cup {EachOnce, Append(EachOnce, Option("a"))}

InitLoop ==
  /\ pc = "initialize_flag_counters"
  /\ getopts_parameter_string \in LoopParameterStrings
  /\ argv \in LoopCommandLines
  /\ OPTIND = 1
  /\ flag_ = <<>>
  /\ SUM_EXP6 = 0
  /\ exit_code = running
  /\ IdleMain
  /\ IdleWrap

InitializeFlagCounters ==
  /\ pc = "initialize_flag_counters"
  /\ flag_' = [c \in CountersOf(getopts_parameter_string) |-> 0]
  /\ pc' = "getopts"
  /\ UNCHANGED <<getopts_parameter_string, argv, OPTIND, SUM_EXP6, exit_code>>
  /\ UNCHANGED <<args, descriptions, flag_data, data, last, out, adds, author, content>>
  /\ UNCHANGED wrapVars

\* one turn of  while getopts $getopts_parameter_string option  with its case
Getopts ==
  /\ pc = "getopts"
  /\ OPTIND <= Len(argv)
  /\ argv[OPTIND].dash
  /\ LET c == argv[OPTIND].c
         known == c \in Range(getopts_parameter_string) /\ c # ":"
         wants == known /\ TakesValue(getopts_parameter_string, c)
         option == IF ~known THEN "?"
                   ELSE IF wants /\ OPTIND = Len(argv) THEN ":"
                   ELSE c
         counted == option \in CountersOf(getopts_parameter_string)
         counters == IF counted
                       THEN [flag_ EXCEPT ![option] = @ + 1]
                       ELSE flag_
         sum == sum_exp6_flags(getopts_parameter_string, counters)
     IN  /\ OPTIND' = (IF option = c /\ wants THEN OPTIND + 2 ELSE OPTIND + 1)
         /\ IF option = "h"
              THEN /\ exit_code' = sucess_code
                   /\ UNCHANGED <<flag_, SUM_EXP6>>
              ELSE IF option = ":"
                THEN /\ exit_code' = missing_argument_code
                     /\ UNCHANGED <<flag_, SUM_EXP6>>
                ELSE /\ flag_' = counters
                     /\ SUM_EXP6' = sum
                     /\ exit_code' =
                          (IF sum > 36 THEN replicate_flag_code
                           ELSE IF option = "?" THEN invalid_argument_code
                           ELSE running)
         /\ pc' = (IF exit_code' = running THEN "getopts" ELSE "exit")
  /\ UNCHANGED <<getopts_parameter_string, argv>>
  /\ UNCHANGED <<args, descriptions, flag_data, data, last, out, adds, author, content>>
  /\ UNCHANGED wrapVars

\* getopts finds no further option: the loop is left
GetoptsDone ==
  /\ pc = "getopts"
  /\ (IF OPTIND > Len(argv) THEN TRUE ELSE ~argv[OPTIND].dash)
  /\ pc' = "parsed"
  /\ UNCHANGED loopVars
  /\ UNCHANGED <<args, descriptions, flag_data, data, last, out, adds, author, content>>
  /\ UNCHANGED wrapVars

NextLoop ==
  \/ InitializeFlagCounters
  \/ Getopts
  \/ GetoptsDone

SpecLoop == InitLoop /\ [][NextLoop]_vars

GivenTwice == \E c \in DOMAIN flag_ : flag_[c] > 1

\* C9: with at most 36 counters starting at 0 and every parsed option adding 1
\* to its own counter, the sum of the sixth powers is above 36 exactly when
\* some flag was given more than once; the loop exits with replicate_flag_code
\* at the option that repeats an earlier one and never while every flag was
\* given at most once.
C9_SumAbove36IffRepeated ==
  /\ [](pc # "initialize_flag_counters" =>
          /\ Cardinality(DOMAIN flag_) <= 36
          /\ SUM_EXP6 = sum_exp6_flags(getopts_parameter_string, flag_)
          /\ SUM_EXP6 > 36 <=> GivenTwice
          /\ exit_code = replicate_flag_code <=> GivenTwice)
  /\ [][/\ pc = "initialize_flag_counters" => \A c \in DOMAIN flag_' : flag_'[c] = 0
        /\ pc = "getopts" =>
             \A c \in DOMAIN flag_ :
               /\ flag_'[c] \in {flag_[c], flag_[c] + 1}
               /\ flag_'[c] = flag_[c] + 1 =>
                    /\ argv[OPTIND] = Option(c)
                    /\ \A d \in DOMAIN flag_ \ {c} : flag_'[d] = flag_[d]
                    /\ flag_[c] >= 1 => exit_code' = replicate_flag_code]_vars

\* a second -a on a command line that already gave 35 different options once
C9_Witness ==
  /\ pc = "exit"
  /\ exit_code = replicate_flag_code
  /\ Cardinality(DOMAIN flag_) = 36
  /\ flag_["a"] = 2
  /\ SUM_EXP6 = 98

\* 35 different options, each given once: the sum is 35 and the loop goes on
C9_WitnessEachOnce ==
  /\ pc = "parsed"
  /\ SUM_EXP6 = 35
  /\ exit_code = running

=============================================================================
